---- MODULE Spec2Model ----
(***************************************************************************)
(* A model of cbindgen's type alias item, src/bindgen/ir/typedef.rs:       *)
(* loading, annotation transfer, monomorph instantiation, dependency       *)
(* contribution and emission of a Typedef.                                 *)
(***************************************************************************)
EXTENDS Integers, Sequences, FiniteSets, TLC

VARIABLES
    typedefs,    \* the Library's aliases: Path -> Typedef
    out,         \* the annotation accumulator: HashMap<Path, AnnotationSet>
    warnings,    \* the warn! log of transfer_annotations
    trace,       \* the transfer_annotations calls made so far
    monomorphs,  \* the Monomorphs registry, in insertion order
    aborted,     \* the panic message of a failed assert!, "" while running
    calls,       \* the number of operations performed after loading
    last,        \* the last operation: its inputs and the steps it ran
    loaded,      \* the Result of the last Typedef::load
    written,     \* what Source::write sent to the SourceWriter, in order
    deps         \* the Dependencies set

vars == <<typedefs, out, warnings, trace, monomorphs, aborted, calls, last,
          loaded, written, deps>>

(***************************************************************************)
(* Bounds                                                                  *)
(***************************************************************************)
MaxCalls == 3

(***************************************************************************)
(* The Type / Path model.  A Path is its name, kept as the sequence of the  *)
(* identifiers that the mangler joins with "_" (a declared name is one     *)
(* identifier).  A Type is a tree of records [kind, name, export, ctype,    *)
(* args]: a Path node carries, beside its name, the name it is exported    *)
(* under and the declaration kind it was resolved to ("" before).          *)
(***************************************************************************)
Path_new(ident) == <<ident>>

Primitive(n) ==
    [kind |-> "Primitive", name |-> <<n>>, export |-> <<>>, ctype |-> "",
     args |-> <<>>]

Ptr(t) ==
    [kind |-> "Ptr", name |-> <<>>, export |-> <<>>, ctype |-> "", args |-> <<t>>]

ArrayT(t) ==
    [kind |-> "Array", name |-> <<>>, export |-> <<>>, ctype |-> "",
     args |-> <<t>>]

\* GenericPath::new: the export name starts as the name.
GenericPath_new(path, gs) ==
    [kind |-> "Path", name |-> path, export |-> path, ctype |-> "", args |-> gs]

PathT(n, gs) == GenericPath_new(Path_new(n), gs)

NoPath == [some |-> FALSE, path |-> <<>>]

SomePath(p) == [some |-> TRUE, path |-> p]

\* Type::get_root_path: the outermost named type behind any pointers.
RECURSIVE get_root_path(_)
get_root_path(t) ==
    CASE t.kind = "Ptr" -> get_root_path(t.args[1])
      [] t.kind = "Path" -> SomePath(t.name)
      [] OTHER -> NoPath

\* Option<Cfg>
NoCfg == [kind |-> "None", name |-> "", args |-> <<>>]

\* AnnotationSet::new
AnnotationSet_new == {}

EmptyMap == [p \in {} |-> {}]

contains_key(m, k) == k \in DOMAIN m

insert(m, k, v) == [p \in DOMAIN m \cup {k} |-> IF p = k THEN v ELSE m[p]]

(***************************************************************************)
(* Typedef                                                                 *)
(***************************************************************************)
new(path, generic_params, aliased, cfg, annotations, documentation) ==
    [path |-> path,
     export_name |-> path,
     generic_params |-> generic_params,
     aliased |-> aliased,
     cfg |-> cfg,
     annotations |-> annotations,
     documentation |-> documentation]

\* transfer_annotations with the alias's set cleared on a conflict too.
transfer_annotations_clearing(self, acc) ==
    IF self.annotations = {}
    THEN [self |-> self, out |-> acc, warned |-> <<>>]
    ELSE LET alias_path == get_root_path(self.aliased) IN
         IF alias_path.some
         THEN IF contains_key(acc, alias_path.path)
              THEN [self |-> [self EXCEPT !.annotations = AnnotationSet_new],
                    out |-> acc,
                    warned |-> <<[root |-> alias_path.path, from |-> self.path]>>]
              ELSE [self |-> [self EXCEPT !.annotations = AnnotationSet_new],
                    out |-> insert(acc, alias_path.path, self.annotations),
                    warned |-> <<>>]
         ELSE [self |-> self, out |-> acc, warned |-> <<>>]

\* transfer_annotations without the contains_key test: the last writer wins.
transfer_annotations_overwriting(self, acc) ==
    IF self.annotations = {}
    THEN [self |-> self, out |-> acc, warned |-> <<>>]
    ELSE LET alias_path == get_root_path(self.aliased) IN
         IF alias_path.some
         THEN [self |-> [self EXCEPT !.annotations = AnnotationSet_new],
               out |-> insert(acc, alias_path.path, self.annotations),
               warned |-> <<>>]
         ELSE [self |-> self, out |-> acc, warned |-> <<>>]

\* transfer_annotations that copies the set and forgets to clear the alias.
transfer_annotations_keeping(self, acc) ==
    IF self.annotations = {}
    THEN [self |-> self, out |-> acc, warned |-> <<>>]
    ELSE LET alias_path == get_root_path(self.aliased) IN
         IF alias_path.some
         THEN IF contains_key(acc, alias_path.path)
              THEN [self |-> self, out |-> acc,
                    warned |-> <<[root |-> alias_path.path, from |-> self.path]>>]
              ELSE [self |-> self,
                    out |-> insert(acc, alias_path.path, self.annotations),
                    warned |-> <<>>]
         ELSE [self |-> self, out |-> acc, warned |-> <<>>]

\* The result of transfer_annotations(self, out): the alias, the accumulator
\* and the warnings logged.
transfer_annotations(self, acc) ==
    IF self.annotations = {}
    THEN [self |-> self, out |-> acc, warned |-> <<>>]
    ELSE LET alias_path == get_root_path(self.aliased) IN
         IF alias_path.some
         THEN IF contains_key(acc, alias_path.path)
              THEN [self |-> self, out |-> acc,
                    warned |-> <<[root |-> alias_path.path, from |-> self.path]>>]
              ELSE [self |-> [self EXCEPT !.annotations = AnnotationSet_new],
                    out |-> insert(acc, alias_path.path, self.annotations),
                    warned |-> <<>>]
         ELSE [self |-> self, out |-> acc, warned |-> <<>>]

is_generic(self) == Len(self.generic_params) > 0

(***************************************************************************)
(* The passes that rewrite an alias in place                               *)
(***************************************************************************)
\* Type::simplify_standard_types: Option<X> becomes a pointer to X.
RECURSIVE Type_simplify_standard_types(_)
Type_simplify_standard_types(t) ==
    IF t.kind = "Path" /\ t.name = Path_new("Option") /\ Len(t.args) = 1
    THEN Ptr(Type_simplify_standard_types(t.args[1]))
    ELSE [t EXCEPT !.args = [i \in 1..Len(t.args) |->
                                Type_simplify_standard_types(t.args[i])]]

\* Typedef::simplify_standard_types
simplify_standard_types(self) ==
    [self EXCEPT !.aliased = Type_simplify_standard_types(self.aliased)]

\* <Typedef as Item>::annotations_mut, used to store the set a.
annotations_mut(self, a) == [self EXCEPT !.annotations = a]

\* config.export.rename: a name listed in the rename table is replaced.
Export_rename(config, name) ==
    IF Len(name) = 1 /\ name[1] \in DOMAIN config.rename
    THEN <<config.rename[name[1]]>>
    ELSE name

\* Type::rename_for_config: the export name of every Path that is not a
\* generic parameter is renamed.
RECURSIVE Type_rename_for_config(_, _, _)
Type_rename_for_config(t, config, generic_params) ==
    LET args == [i \in 1..Len(t.args) |->
                   Type_rename_for_config(t.args[i], config, generic_params)]
    IN  IF t.kind = "Path" /\ \A i \in 1..Len(generic_params) :
                                 generic_params[i] # t.name
        THEN [t EXCEPT !.args = args, !.export = Export_rename(config, t.export)]
        ELSE [t EXCEPT !.args = args]

\* <Typedef as Item>::rename_for_config
rename_for_config(self, config) ==
    [self EXCEPT !.export_name = Export_rename(config, self.export_name),
                 !.aliased = Type_rename_for_config(self.aliased, config,
                                                    self.generic_params)]

\* Type::resolve_declaration_types: a Path the resolver knows gets its kind.
RECURSIVE Type_resolve_declaration_types(_, _)
Type_resolve_declaration_types(t, resolver) ==
    LET args == [i \in 1..Len(t.args) |->
                   Type_resolve_declaration_types(t.args[i], resolver)]
    IN  IF t.kind = "Path" /\ t.name \in DOMAIN resolver
        THEN [t EXCEPT !.args = args, !.ctype = resolver[t.name]]
        ELSE [t EXCEPT !.args = args]

\* <Typedef as Item>::resolve_declaration_types
resolve_declaration_types(self, resolver) ==
    [self EXCEPT !.aliased = Type_resolve_declaration_types(self.aliased, resolver)]

(***************************************************************************)
(* Collaborators of the monomorphization pass: the Mangler, Type's         *)
(* specialization and the Monomorphs registry.                             *)
(***************************************************************************)
\* mangle::mangle_path: the name followed by the flattened names of the
\* concrete arguments (joined with "_" in the text).
RECURSIVE mangle_args(_)
mangle_args(generic_values) ==
    IF generic_values = <<>>
    THEN <<>>
    ELSE LET ty == Head(generic_values) IN
         ty.name \o mangle_args(ty.args) \o mangle_args(Tail(generic_values))

mangle_path(path, generic_values) == path \o mangle_args(generic_values)

\* The (GenericParam, Type) pairs of line 174..178: zip stops at the shorter.
zip(generic_params, generic_values) ==
    [i \in 1..(IF Len(generic_params) < Len(generic_values)
               THEN Len(generic_params) ELSE Len(generic_values))
       |-> <<generic_params[i], generic_values[i]>>]

\* Type::specialize: a Path naming a mapped parameter becomes its value.
RECURSIVE specialize(_, _)
specialize(t, mappings) ==
    IF t.kind = "Path" /\ \E i \in 1..Len(mappings) : mappings[i][1] = t.name
    THEN mappings[CHOOSE i \in 1..Len(mappings) :
                    /\ mappings[i][1] = t.name
                    /\ \A j \in 1..(i - 1) : mappings[j][1] # t.name][2]
    ELSE [t EXCEPT !.args = [i \in 1..Len(t.args) |-> specialize(t.args[i], mappings)]]

GenericKey(path, generic_values) == <<path, generic_values>>

\* Monomorphs::contains
contains(reg, key) == \E i \in 1..Len(reg) : reg[i].key = key

\* Monomorphs::insert_typedef: re-insertion under an identical key is
\* short-circuited.
insert_typedef(reg, generic, monomorph, parameters) ==
    IF contains(reg, GenericKey(generic.path, parameters))
    THEN reg
    ELSE Append(reg, [key |-> GenericKey(generic.path, parameters),
                      item |-> monomorph])

\* Type::mangle_paths: a generic Path the registry holds is replaced by the
\* Path of its monomorph, without arguments.
RECURSIVE Type_mangle_paths(_, _)
Type_mangle_paths(t, reg) ==
    IF t.kind = "Path"
    THEN IF Len(t.args) > 0 /\ contains(reg, GenericKey(t.name, t.args))
         THEN GenericPath_new(
                  reg[CHOOSE i \in 1..Len(reg) :
                        reg[i].key = GenericKey(t.name, t.args)].item.path,
                  <<>>)
         ELSE t
    ELSE [t EXCEPT !.args = [i \in 1..Len(t.args) |-> Type_mangle_paths(t.args[i], reg)]]

\* Typedef::mangle_paths
mangle_paths(self, reg) ==
    [self EXCEPT !.aliased = Type_mangle_paths(self.aliased, reg)]

\* The state threaded through one monomorphization call: the registry, the
\* steps run so far and the panic message ("" while running).
Running(m) == m.aborted = ""

Step(m, s) == [m EXCEPT !.log = Append(@, s)]

Panic(m, msg) == [m EXCEPT !.aborted = msg]

RECURSIVE instantiate_monomorph(_, _, _, _)
RECURSIVE Type_add_monomorphs(_, _, _)

\* Typedef::add_monomorphs
add_monomorphs(self, library, m) ==
    IF is_generic(self)
    THEN Step(m, <<"add_monomorphs", self.path>>)
    ELSE Type_add_monomorphs(self.aliased, library,
                             Step(m, <<"add_monomorphs", self.path>>))

\* Type::add_monomorphs: a generic path not yet in the registry asks the
\* Library's item of that name to instantiate itself.
Type_add_monomorphs(t, library, m) ==
    CASE t.kind \in {"Ptr", "Array"} -> Type_add_monomorphs(t.args[1], library, m)
      [] t.kind = "Path" ->
           IF Len(t.args) = 0 \/ contains(m.reg, GenericKey(t.name, t.args))
           THEN m
           ELSE IF t.name \in DOMAIN library
                THEN instantiate_monomorph(library[t.name], t.args, library, m)
                ELSE m
      [] OTHER -> m

\* instantiate_monomorph without the arity assert: zip truncates silently.
instantiate_monomorph_unchecked(self, generic_values, library, m) ==
    IF ~(Len(self.generic_params) > 0)
    THEN Panic(m, "is not generic")
    ELSE LET mappings == zip(self.generic_params, generic_values)
             mangled_path == mangle_path(self.path, generic_values)
             monomorph == new(mangled_path,
                              <<>>,
                              specialize(self.aliased, mappings),
                              self.cfg,
                              self.annotations,
                              self.documentation)
             m1 == Step(Step(Step(m, <<"mangle_path", mangled_path>>),
                             <<"specialize", self.path>>),
                        <<"new", mangled_path>>)
             m2 == add_monomorphs(monomorph, library, m1)
         IN  IF Running(m2)
             THEN [Step(m2, <<"insert_typedef", mangled_path>>)
                     EXCEPT !.reg = insert_typedef(m2.reg, self, monomorph,
                                                   generic_values)]
             ELSE m2

\* instantiate_monomorph that consults the registry first and returns
\* without building anything when the key is present.
instantiate_monomorph_memoized(self, generic_values, library, m) ==
    IF ~(Len(self.generic_params) > 0)
    THEN Panic(m, "is not generic")
    ELSE IF ~(Len(self.generic_params) = Len(generic_values))
    THEN Panic(m, "params but is being instantiated with values")
    ELSE IF contains(m.reg, GenericKey(self.path, generic_values))
    THEN m
    ELSE LET mappings == zip(self.generic_params, generic_values)
             mangled_path == mangle_path(self.path, generic_values)
             monomorph == new(mangled_path,
                              <<>>,
                              specialize(self.aliased, mappings),
                              self.cfg,
                              self.annotations,
                              self.documentation)
             m1 == Step(Step(Step(m, <<"mangle_path", mangled_path>>),
                             <<"specialize", self.path>>),
                        <<"new", mangled_path>>)
             m2 == add_monomorphs(monomorph, library, m1)
         IN  IF Running(m2)
             THEN [Step(m2, <<"insert_typedef", mangled_path>>)
                     EXCEPT !.reg = insert_typedef(m2.reg, self, monomorph,
                                                   generic_values)]
             ELSE m2

\* instantiate_monomorph that names the monomorph after the generic alias
\* and keeps its generic parameters.
instantiate_monomorph_unmangled(self, generic_values, library, m) ==
    IF ~(Len(self.generic_params) > 0)
    THEN Panic(m, "is not generic")
    ELSE IF ~(Len(self.generic_params) = Len(generic_values))
    THEN Panic(m, "params but is being instantiated with values")
    ELSE LET mappings == zip(self.generic_params, generic_values)
             mangled_path == mangle_path(self.path, generic_values)
             monomorph == new(self.path,
                              self.generic_params,
                              specialize(self.aliased, mappings),
                              self.cfg,
                              self.annotations,
                              self.documentation)
             m1 == Step(Step(Step(m, <<"mangle_path", mangled_path>>),
                             <<"specialize", self.path>>),
                        <<"new", mangled_path>>)
             m2 == add_monomorphs(monomorph, library, m1)
         IN  IF Running(m2)
             THEN [Step(m2, <<"insert_typedef", mangled_path>>)
                     EXCEPT !.reg = insert_typedef(m2.reg, self, monomorph,
                                                   generic_values)]
             ELSE m2

\* <Typedef as Item>::instantiate_monomorph
instantiate_monomorph(self, generic_values, library, m) ==
    IF ~(Len(self.generic_params) > 0)
    THEN Panic(m, "is not generic")
    ELSE IF ~(Len(self.generic_params) = Len(generic_values))
    THEN Panic(m, "params but is being instantiated with values")
    ELSE LET mappings == zip(self.generic_params, generic_values)
             mangled_path == mangle_path(self.path, generic_values)
             monomorph == new(mangled_path,
                              <<>>,
                              specialize(self.aliased, mappings),
                              self.cfg,
                              self.annotations,
                              self.documentation)
             m1 == Step(Step(Step(m, <<"mangle_path", mangled_path>>),
                             <<"specialize", self.path>>),
                        <<"new", mangled_path>>)
             m2 == add_monomorphs(monomorph, library, m1)
         IN  IF Running(m2)
             THEN [Step(m2, <<"insert_typedef", mangled_path>>)
                     EXCEPT !.reg = insert_typedef(m2.reg, self, monomorph,
                                                   generic_values)]
             ELSE m2

(***************************************************************************)
(* Values the variables hold while a pass does not use them                *)
(***************************************************************************)
NoTypedef == new(<<>>, <<>>, Primitive(""), NoCfg, {}, "")

NotLoaded == [ok |-> FALSE, err |-> "", value |-> NoTypedef]

NoCall == [op |-> "none"]

NewRun(m) == [reg |-> m, log |-> <<>>, aborted |-> ""]

Named(c) == [kind |-> "Named", name |-> c, args |-> <<>>]

(***************************************************************************)
(* The rewriting passes as steps on an alias of the Library                *)
(***************************************************************************)
\* The configuration: the target language and the export rename table.
Config(language) ==
    [language |-> language,
     rename |-> ("Foo" :> "PreFoo" @@ "Bar" :> "PreBar" @@ "Wrap" :> "PreWrap"
                 @@ "A1" :> "PreA1")]

\* DeclarationTypeResolver: every alias of the Library is a typedef.
Resolver == [p \in DOMAIN typedefs |-> "typedef"]

\* What a caller stores through annotations_mut.
StoredAnnotations == {{"again"}}

Rewritten(n, self, op) ==
    /\ aborted = ""
    /\ calls < MaxCalls
    /\ typedefs' = [typedefs EXCEPT ![n] = self]
    /\ calls' = calls + 1
    /\ last' = [op |-> op, alias |-> n]
    /\ UNCHANGED <<out, warnings, trace, monomorphs, aborted, loaded, written, deps>>

SimplifyStandardTypes(n) ==
    Rewritten(n, simplify_standard_types(typedefs[n]), "simplify_standard_types")

AnnotationsMut(n) ==
    \E a \in StoredAnnotations :
        Rewritten(n, annotations_mut(typedefs[n], a), "annotations_mut")

RenameForConfig(n) ==
    Rewritten(n, rename_for_config(typedefs[n], Config("C")), "rename_for_config")

ResolveDeclarationTypes(n) ==
    Rewritten(n, resolve_declaration_types(typedefs[n], Resolver),
              "resolve_declaration_types")

ManglePaths(n) ==
    Rewritten(n, mangle_paths(typedefs[n], monomorphs), "mangle_paths")

(***************************************************************************)
(* Annotation transfer over a library of aliases sharing one accumulator   *)
(***************************************************************************)
AliasNames == {Path_new("A1"), Path_new("A2")}

AliasedSamples ==
    {Primitive("i32"), PathT("Bar", <<>>), Ptr(PathT("Baz", <<>>)),
     PathT("Option", <<PathT("Bar", <<>>)>>)}

AnnotationSamples == {{}, {"x"}, {"y"}}

InitTransfer ==
    /\ typedefs \in
         {f \in [AliasNames -> {new(n, <<>>, t, NoCfg, a, "")
                                  : n \in AliasNames,
                                    t \in AliasedSamples,
                                    a \in AnnotationSamples}] :
              \A n \in AliasNames : f[n].path = n}
    /\ out = EmptyMap
    /\ warnings = <<>>
    /\ trace = <<>>
    /\ monomorphs = <<>>
    /\ aborted = ""
    /\ calls = 0
    /\ last = NoCall
    /\ loaded = NotLoaded
    /\ written = <<>>
    /\ deps = <<>>

TransferAnnotations(n) ==
    /\ aborted = ""
    /\ calls < MaxCalls
    /\ LET r == transfer_annotations(typedefs[n], out) IN
         /\ typedefs' = [typedefs EXCEPT ![n] = r.self]
         /\ out' = r.out
         /\ warnings' = warnings \o r.warned
    /\ trace' = Append(trace, [alias |-> n,
                               ann |-> typedefs[n].annotations,
                               root |-> get_root_path(typedefs[n].aliased)])
    /\ calls' = calls + 1
    /\ last' = [op |-> "transfer_annotations", alias |-> n,
                ann |-> typedefs[n].annotations,
                root |-> get_root_path(typedefs[n].aliased),
                had |-> contains_key(out, get_root_path(typedefs[n].aliased).path)]
    /\ UNCHANGED <<monomorphs, aborted, loaded, written, deps>>

NextTransfer ==
    \E n \in AliasNames :
        \/ TransferAnnotations(n)
        \/ SimplifyStandardTypes(n)
        \/ AnnotationsMut(n)
        \/ RenameForConfig(n)
        \/ ResolveDeclarationTypes(n)
        \/ ManglePaths(n)

SpecTransfer == InitTransfer /\ [][NextTransfer]_vars

\* A step that is a call of transfer_annotations on alias n.
TransferStep(n) ==
    /\ calls' = calls + 1
    /\ last'.op = "transfer_annotations"
    /\ last'.alias = n

RootOf(n) == get_root_path(typedefs[n].aliased)

\* The call on n meets a root that another alias has already claimed.
ConflictCase(n) ==
    /\ typedefs[n].annotations # {}
    /\ RootOf(n).some
    /\ RootOf(n).path \in DOMAIN out

\* The call on n transfers its set.
SuccessCase(n) ==
    /\ typedefs[n].annotations # {}
    /\ RootOf(n).some
    /\ RootOf(n).path \notin DOMAIN out

\* C1 as stated: on a conflicting transfer the accumulator's entry for the
\* root is unchanged and the second alias's own annotation set is emptied.
C1_ConflictClearsSecond ==
    [][\A n \in AliasNames :
         TransferStep(n) /\ ConflictCase(n) =>
           /\ out'[RootOf(n).path] = out[RootOf(n).path]
           /\ typedefs'[n].annotations = {}]_vars

\* C1 amended: on a conflicting transfer the accumulator is unchanged, one
\* warning is logged, and the second alias keeps its own annotation set.
C1_ConflictKeepsSecond ==
    [][\A n \in AliasNames :
         TransferStep(n) /\ ConflictCase(n) =>
           /\ out' = out
           /\ typedefs' = typedefs
           /\ typedefs'[n].annotations # {}
           /\ warnings' = Append(warnings, [root |-> RootOf(n).path, from |-> n])]_vars

\* Two distinct annotated aliases with one root were transferred in turn, and
\* the second still holds its set.
C1_Witness ==
    /\ Len(trace) >= 2
    /\ last.op = "transfer_annotations"
    /\ last.ann # {}
    /\ last.root.some
    /\ last.had
    /\ \E i \in 1..(Len(trace) - 1) :
         /\ trace[i].alias # last.alias
         /\ trace[i].ann # {}
         /\ trace[i].root = last.root
    /\ typedefs[last.alias].annotations = last.ann
    /\ Len(warnings) > 0

\* The first call in the trace that carried annotations to root r.
IsFirstWriter(i, r) ==
    /\ trace[i].root = SomePath(r)
    /\ trace[i].ann # {}
    /\ \A j \in 1..(i - 1) : ~(trace[j].root = SomePath(r) /\ trace[j].ann # {})

\* C2: first writer wins.  An entry of the accumulator is never overwritten,
\* merged or removed, and it is the set of the first annotated alias whose
\* aliased type has that root.
C2_FirstWriterWins ==
    /\ [](\A r \in DOMAIN out :
            \E i \in 1..Len(trace) : IsFirstWriter(i, r) /\ out[r] = trace[i].ann)
    /\ [][\A r \in DOMAIN out : r \in DOMAIN out' /\ out'[r] = out[r]]_vars

\* A later alias with a different set targeted a root that is already held.
C2_Witness ==
    \E r \in DOMAIN out : \E i, j \in 1..Len(trace) :
        /\ i < j
        /\ IsFirstWriter(i, r)
        /\ trace[j].root = SomePath(r)
        /\ trace[j].ann # {}
        /\ trace[j].ann # trace[i].ann
        /\ out[r] = trace[i].ann

\* C10: transfer_annotations changes state only on a successful transfer.
\* With an empty set, no root or a claimed root, alias and accumulator are
\* unchanged; on success the accumulator gains exactly the entry
\* root -> former set and only the alias's set changes, to empty.
C10_TransferFrame ==
    [][\A n \in AliasNames :
         TransferStep(n) =>
           IF SuccessCase(n)
           THEN /\ DOMAIN out' = DOMAIN out \cup {RootOf(n).path}
                /\ out'[RootOf(n).path] = typedefs[n].annotations
                /\ \A p \in DOMAIN out : out'[p] = out[p]
                /\ typedefs' = [typedefs EXCEPT ![n].annotations = {}]
           ELSE /\ typedefs' = typedefs
                /\ out' = out]_vars

\* An alias was transferred successfully and then called again, to no effect.
C10_Witness ==
    \E i \in 1..(Len(trace) - 1) :
        /\ trace[i].alias = trace[i + 1].alias
        /\ trace[i].ann # {}
        /\ trace[i].root.some
        /\ trace[i].root.path \in DOMAIN out
        /\ out[trace[i].root.path] = trace[i].ann
        /\ trace[i + 1].ann = {}

(***************************************************************************)
(* Monomorphization over a library of generic and concrete aliases         *)
(***************************************************************************)
T == Path_new("T")

U == Path_new("U")

TypeT == GenericPath_new(T, <<>>)

TypeU == GenericPath_new(U, <<>>)

\* cfg, annotations and documentation of a library alias
Metas == {<<Named("windows"), {"y"}, "doc">>}

\* The metadata of an alias that refers to another generic alias.
OuterMetas == {<<Named("unix"), {"x"}, "doc">>}

MonoNames == {Path_new("Wrap"), Path_new("Pair"), Path_new("Outer"),
              Path_new("Plain"), Path_new("Opt")}

MonoLibrary(mw, mo) ==
    [n \in MonoNames |->
       CASE n = Path_new("Wrap") ->
              new(n, <<T>>, Ptr(TypeT), mw[1], mw[2], mw[3])
         [] n = Path_new("Pair") ->
              new(n, <<T, U>>, PathT("Bar", <<TypeT, TypeU>>), NoCfg, {}, "")
         [] n = Path_new("Outer") ->
              new(n, <<T>>, PathT("Wrap", <<TypeT>>), mo[1], mo[2], mo[3])
         [] n = Path_new("Plain") ->
              new(n, <<>>, PathT("Wrap", <<Primitive("i32")>>), NoCfg, {}, "")
         [] n = Path_new("Opt") ->
              new(n, <<T>>, PathT("Option", <<PathT("Wrap", <<TypeT>>)>>),
                  NoCfg, {}, "")]

ConcreteArgs == {Primitive("i32"), PathT("Baz", <<>>)}

ArgLists ==
    {<<>>} \cup {<<a>> : a \in ConcreteArgs}
           \cup {<<Primitive("i32"), PathT("Baz", <<>>)>>}

InitMono ==
    /\ typedefs \in {MonoLibrary(mw, mo) : mw \in Metas, mo \in OuterMetas}
    /\ out = EmptyMap
    /\ warnings = <<>>
    /\ trace = <<>>
    /\ monomorphs = <<>>
    /\ aborted = ""
    /\ calls = 0
    /\ last = NoCall
    /\ loaded = NotLoaded
    /\ written = <<>>
    /\ deps = <<>>

InstantiateMonomorph(g, generic_values) ==
    /\ aborted = ""
    /\ calls < MaxCalls
    /\ LET m == instantiate_monomorph(typedefs[g], generic_values, typedefs,
                                      NewRun(monomorphs)) IN
         /\ monomorphs' = m.reg
         /\ aborted' = m.aborted
         /\ last' = [op |-> "instantiate_monomorph", alias |-> g,
                     args |-> generic_values, log |-> m.log,
                     present |-> contains(monomorphs, GenericKey(g, generic_values))]
    /\ calls' = calls + 1
    /\ UNCHANGED <<typedefs, out, warnings, trace, loaded, written, deps>>

AddMonomorphs(g) ==
    /\ aborted = ""
    /\ calls < MaxCalls
    /\ LET m == add_monomorphs(typedefs[g], typedefs, NewRun(monomorphs)) IN
         /\ monomorphs' = m.reg
         /\ aborted' = m.aborted
         /\ last' = [op |-> "add_monomorphs", alias |-> g, log |-> m.log]
    /\ calls' = calls + 1
    /\ UNCHANGED <<typedefs, out, warnings, trace, loaded, written, deps>>

NextMono ==
    \/ \E g \in MonoNames, generic_values \in ArgLists :
         InstantiateMonomorph(g, generic_values)
    \/ \E g \in MonoNames : AddMonomorphs(g)
    \/ \E g \in MonoNames :
         \/ TransferAnnotations(g)
         \/ SimplifyStandardTypes(g)
         \/ AnnotationsMut(g)
         \/ RenameForConfig(g)
         \/ ResolveDeclarationTypes(g)
         \/ ManglePaths(g)

SpecMono == InitMono /\ [][NextMono]_vars

\* A step that is a call of instantiate_monomorph on alias g with values vs.
InstantiateStep(g, vs) ==
    /\ calls' = calls + 1
    /\ last'.op = "instantiate_monomorph"
    /\ last'.alias = g
    /\ last'.args = vs

\* The number of steps named s that a call ran.
RECURSIVE CountSteps(_, _)
CountSteps(log, s) ==
    IF log = <<>>
    THEN 0
    ELSE (IF Head(log)[1] = s THEN 1 ELSE 0) + CountSteps(Tail(log), s)

ArityBroken(g, vs) ==
    \/ Len(typedefs[g].generic_params) = 0
    \/ Len(typedefs[g].generic_params) # Len(vs)

\* C3: arity contract.  instantiate_monomorph on an alias with no generic
\* parameters, or with a number of values other than the number of
\* parameters, panics before it mangles, specializes, builds or inserts
\* anything: the registry is unchanged.
C3_ArityContract ==
    [][\A g \in MonoNames, vs \in ArgLists :
         InstantiateStep(g, vs) /\ ArityBroken(g, vs) =>
           /\ aborted' # ""
           /\ monomorphs' = monomorphs
           /\ last'.log = <<>>]_vars

\* A call with the wrong number of values panicked over a non-empty registry.
C3_Witness ==
    /\ aborted # ""
    /\ last.op = "instantiate_monomorph"
    /\ Len(typedefs[last.alias].generic_params) > 0
    /\ Len(last.args) > 0
    /\ Len(last.args) # Len(typedefs[last.alias].generic_params)
    /\ Len(monomorphs) > 0

\* The call on g with vs passes both asserts and its key is in the registry.
DuplicateCase(g, vs) ==
    /\ ~ArityBroken(g, vs)
    /\ contains(monomorphs, GenericKey(g, vs))

NoDuplicateKeys ==
    \A i, j \in 1..Len(monomorphs) :
        monomorphs[i].key = monomorphs[j].key => i = j

\* C4 as stated: a call whose key is already in the registry does no
\* duplicate work: it builds no concrete alias, calls no add_monomorphs and
\* leaves the registry unchanged.
C4_NoDuplicateWork ==
    [][\A g \in MonoNames, vs \in ArgLists :
         InstantiateStep(g, vs) /\ DuplicateCase(g, vs) =>
           /\ monomorphs' = monomorphs
           /\ CountSteps(last'.log, "new") = 0
           /\ CountSteps(last'.log, "add_monomorphs") = 0]_vars

\* The first n steps of a call's log are the call's own work on (g, vs).
OwnWork(log, g, vs) ==
    /\ Len(log) >= 5
    /\ SubSeq(log, 1, 4) = << <<"mangle_path", mangle_path(g, vs)>>,
                              <<"specialize", g>>,
                              <<"new", mangle_path(g, vs)>>,
                              <<"add_monomorphs", mangle_path(g, vs)>> >>
    /\ log[Len(log)] = <<"insert_typedef", mangle_path(g, vs)>>

\* C4 amended: a call whose key is already in the registry keeps every
\* existing entry (contents and order) and adds no entry under that key, so
\* the registry never holds two entries under one key; but the call still
\* mangles the name, builds one concrete alias and calls add_monomorphs on
\* it before the insertion is dropped, and a nested instantiation runs for
\* a generic path of the specialized type that the registry lacks.
C4_RegistryDeduplicates ==
    /\ []NoDuplicateKeys
    /\ [][\A g \in MonoNames, vs \in ArgLists :
            InstantiateStep(g, vs) /\ DuplicateCase(g, vs) =>
              /\ Len(monomorphs') >= Len(monomorphs)
              /\ SubSeq(monomorphs', 1, Len(monomorphs)) = monomorphs
              /\ \A i \in (Len(monomorphs) + 1)..Len(monomorphs') :
                   monomorphs'[i].key # GenericKey(g, vs)
              /\ aborted' = ""
              /\ OwnWork(last'.log, g, vs)]_vars

\* A generic alias whose instance needs a nested instance was instantiated
\* again under a key the registry held.
C4_Witness ==
    /\ last.op = "instantiate_monomorph"
    /\ last.present
    /\ last.alias = Path_new("Outer")
    /\ aborted = ""
    /\ Len(monomorphs) >= 2
    /\ contains(monomorphs, GenericKey(last.alias, last.args))

\* The type t with each parameter params[i] replaced by values[i].
RECURSIVE Substituted(_, _, _)
Substituted(t, params, values) ==
    IF t.kind = "Path" /\ \E i \in 1..Len(params) : params[i] = t.name
    THEN values[CHOOSE i \in 1..Len(params) : params[i] = t.name]
    ELSE [kind |-> t.kind, name |-> t.name, export |-> t.export,
          ctype |-> t.ctype,
          args |-> [i \in 1..Len(t.args) |->
                      Substituted(t.args[i], params, values)]]

\* The registry entry e is the concrete instance of its generic alias.
ConcreteInstance(e) ==
    LET generic == typedefs[e.key[1]]
        values == e.key[2]
    IN  /\ e.item.generic_params = <<>>
        /\ ~is_generic(e.item)
        /\ e.item.path = mangle_path(generic.path, values)
        /\ e.item.export_name = e.item.path
        /\ e.item.aliased = Substituted(generic.aliased, generic.generic_params, values)
        /\ e.item.cfg = generic.cfg
        /\ e.item.annotations = generic.annotations
        /\ e.item.documentation = generic.documentation

\* C9: every item instantiate_monomorph inserts is concrete, carries the
\* mangled name as Path and export name, the specialized aliased type and
\* the generic's cfg, annotations and documentation as of the call; the
\* generic alias is not modified; add_monomorphs on a generic alias adds
\* nothing to the registry.
C9_MonomorphIsConcreteCopy ==
    /\ [](\A i \in 1..Len(monomorphs) : ~is_generic(monomorphs[i].item))
    /\ [][calls' = calls + 1 /\ last'.op = "instantiate_monomorph" =>
            /\ typedefs' = typedefs
            /\ \A i \in 1..Len(monomorphs') :
                 IF i <= Len(monomorphs)
                 THEN monomorphs'[i] = monomorphs[i]
                 ELSE ConcreteInstance(monomorphs'[i])]_vars
    /\ [][calls' = calls + 1 /\ last'.op = "add_monomorphs"
            /\ is_generic(typedefs[last'.alias]) =>
            monomorphs' = monomorphs /\ typedefs' = typedefs]_vars

\* An annotated, guarded generic alias was instantiated after another entry,
\* and add_monomorphs was then called on a generic alias.
C9_Witness ==
    /\ last.op = "add_monomorphs"
    /\ is_generic(typedefs[last.alias])
    /\ \E i \in 2..Len(monomorphs) :
         /\ monomorphs[i].item.annotations # {}
         /\ monomorphs[i].item.cfg # NoCfg
         /\ monomorphs[i].item.documentation # ""
         /\ Len(monomorphs[i].key[2]) > 0

(***************************************************************************)
(* Loading an alias from a parsed item, and writing an alias               *)
(***************************************************************************)
All(a, b) == [kind |-> "All", name |-> "", args |-> <<a, b>>]

\* Cfg::append: the conjunction of the predicates that are present.
Cfg_append(mod_cfg, own) ==
    CASE mod_cfg = NoCfg /\ own = NoCfg -> NoCfg
      [] mod_cfg = NoCfg -> own
      [] own = NoCfg -> mod_cfg
      [] OTHER -> All(mod_cfg, own)

\* Type::load of a syn type expression: Err for an unsupported expression,
\* Ok(None) for a zero-size type, Ok(Some(type)) otherwise.
TypeErr(msg) == [tag |-> "Err", err |-> msg, ty |-> Primitive("")]

TypeNone == [tag |-> "None", err |-> "", ty |-> Primitive("")]

TypeSome(t) == [tag |-> "Some", err |-> "", ty |-> t]

RECURSIVE Type_load(_)
Type_load(ty) ==
    CASE ty.syn = "Tuple" /\ ty.elems = <<>> -> TypeNone
      [] ty.syn = "Path" /\ ty.ident = "PhantomData" -> TypeNone
      [] ty.syn = "Path" /\ ty.ident \in {"i32", "u8"} -> TypeSome(Primitive(ty.ident))
      [] ty.syn = "Path" ->
           IF \E i \in 1..Len(ty.elems) : Type_load(ty.elems[i]).tag # "Some"
           THEN TypeErr("Unsupported generic argument.")
           ELSE TypeSome(PathT(ty.ident,
                               [i \in 1..Len(ty.elems) |-> Type_load(ty.elems[i]).ty]))
      [] ty.syn = "Ptr" ->
           LET inner == Type_load(ty.elems[1]) IN
           CASE inner.tag = "Some" -> TypeSome(Ptr(inner.ty))
             [] inner.tag = "None" -> TypeErr("Cannot have a pointer to a zero sized type.")
             [] OTHER -> inner
      [] OTHER -> TypeErr("Unsupported type.")

\* The attribute loaders read what the item's attributes hold.
Cfg_load(attrs) == attrs.cfg

AnnotationSet_load(attrs) == attrs.annotations

Documentation_load(attrs) == attrs.doc

GenericParams_new(generics) == [i \in 1..Len(generics) |-> Path_new(generics[i])]

Ok(t) == [ok |-> TRUE, err |-> "", value |-> t]

Err(msg) == [ok |-> FALSE, err |-> msg, value |-> NoTypedef]

\* load with the enclosing module's predicate dropped.
load_own_cfg_only(item, mod_cfg) ==
    LET x == Type_load(item.ty) IN
    CASE x.tag = "Err" -> Err(x.err)
      [] x.tag = "Some" ->
           LET annotations == AnnotationSet_load(item.attrs) IN
           IF annotations.ok
           THEN Ok(new(Path_new(item.ident),
                       GenericParams_new(item.generics),
                       x.ty,
                       Cfg_load(item.attrs),
                       annotations.set,
                       Documentation_load(item.attrs)))
           ELSE Err(annotations.err)
      [] OTHER -> Err("Cannot have a typedef of a zero sized type.")

\* load that takes an unparsable annotation for an empty annotation set.
load_lenient(item, mod_cfg) ==
    LET x == Type_load(item.ty) IN
    CASE x.tag = "Err" -> Err(x.err)
      [] x.tag = "Some" ->
           LET annotations == AnnotationSet_load(item.attrs) IN
           Ok(new(Path_new(item.ident),
                  GenericParams_new(item.generics),
                  x.ty,
                  Cfg_append(mod_cfg, Cfg_load(item.attrs)),
                  IF annotations.ok THEN annotations.set ELSE {},
                  Documentation_load(item.attrs)))
      [] OTHER -> Err("Cannot have a typedef of a zero sized type.")

\* Typedef::load
load(item, mod_cfg) ==
    LET x == Type_load(item.ty) IN
    CASE x.tag = "Err" -> Err(x.err)
      [] x.tag = "Some" ->
           LET annotations == AnnotationSet_load(item.attrs) IN
           IF annotations.ok
           THEN Ok(new(Path_new(item.ident),
                       GenericParams_new(item.generics),
                       x.ty,
                       Cfg_append(mod_cfg, Cfg_load(item.attrs)),
                       annotations.set,
                       Documentation_load(item.attrs)))
           ELSE Err(annotations.err)
      [] OTHER -> Err("Cannot have a typedef of a zero sized type.")

\* What one call sends to the SourceWriter.
Event(call, text, cond, ty, name) ==
    [call |-> call, text |-> text, cond |-> cond, ty |-> ty, name |-> name]

\* Option<Condition>
NoCondition == [kind |-> "NoCondition", name |-> "", args |-> <<>>]

\* ToCondition::to_condition: no Cfg gives no condition, a named predicate
\* the test of its define, a conjunction the conjunction of its conditions.
RECURSIVE to_condition(_, _)
to_condition(cfg, config) ==
    CASE cfg.kind = "None" -> NoCondition
      [] cfg.kind = "Named" -> [kind |-> "Define", name |-> cfg.name, args |-> <<>>]
      [] OTHER -> [kind |-> "And", name |-> "",
                   args |-> [i \in 1..Len(cfg.args) |-> to_condition(cfg.args[i], config)]]

write_before(condition) ==
    Event("write_before", IF condition = NoCondition THEN <<>> ELSE <<"#if">>,
          condition, Primitive(""), <<>>)

write_after(condition) ==
    Event("write_after", IF condition = NoCondition THEN <<>> ELSE <<"#endif">>,
          condition, Primitive(""), <<>>)

Documentation_write(documentation) ==
    Event("documentation", IF documentation = "" THEN <<>> ELSE <<"///", documentation>>,
          NoCondition, Primitive(""), <<>>)

GenericParams_write(generic_params) ==
    Event("generic_params", IF generic_params = <<>> THEN <<>> ELSE <<"template">>,
          NoCondition, Primitive(""), generic_params)

Statement(self, config) ==
    IF config.language = "C"
    THEN <<Event("write", <<"typedef ">>, NoCondition, Primitive(""), <<>>),
           Event("type_and_name", <<>>, NoCondition, self.aliased, self.export_name)>>
    ELSE <<Event("write", <<"using ", " = ">>, NoCondition, Primitive(""), self.export_name),
           Event("type", <<>>, NoCondition, self.aliased, <<>>)>>

\* write with the documentation ahead of the opening guard.
write_doc_first(self, config) ==
    LET condition == to_condition(self.cfg, config) IN
       <<Documentation_write(self.documentation)>>
    \o <<write_before(condition)>>
    \o <<GenericParams_write(self.generic_params)>>
    \o Statement(self, config)
    \o <<Event("write", <<";">>, NoCondition, Primitive(""), <<>>)>>
    \o <<write_after(condition)>>

\* <Typedef as Source>::write
write(self, config) ==
    LET condition == to_condition(self.cfg, config) IN
       <<write_before(condition)>>
    \o <<Documentation_write(self.documentation)>>
    \o <<GenericParams_write(self.generic_params)>>
    \o Statement(self, config)
    \o <<Event("write", <<";">>, NoCondition, Primitive(""), <<>>)>>
    \o <<write_after(condition)>>

SynPath(ident, elems) == [syn |-> "Path", ident |-> ident, elems |-> elems]

SynPtr(ty) == [syn |-> "Ptr", ident |-> "", elems |-> <<ty>>]

SynTuple(elems) == [syn |-> "Tuple", ident |-> "", elems |-> elems]

SynImplTrait == [syn |-> "ImplTrait", ident |-> "", elems |-> <<>>]

SynTypes ==
    {SynTuple(<<>>), SynPath("PhantomData", <<SynPath("T", <<>>)>>),
     SynPath("i32", <<>>), SynPtr(SynPath("T", <<>>)),
     SynPath("Bar", <<SynPath("T", <<>>)>>),
     SynPath("Option", <<SynPath("Wrap", <<SynPath("i32", <<>>)>>)>>),
     SynImplTrait}

AnnOk(s) == [ok |-> TRUE, err |-> "", set |-> s]

AnnErr == [ok |-> FALSE, err |-> "Couldn't parse annotation.", set |-> {}]

Attrs ==
    [cfg : {NoCfg, Named("feature_a")},
     annotations : {AnnOk({}), AnnOk({"x"}), AnnErr},
     doc : {"", "doc"}]

Items ==
    [ident : {"Foo"}, generics : {<<>>, <<"T">>}, ty : SynTypes, attrs : Attrs]

ModCfgs == {NoCfg, Named("unix")}

Languages == {"C", "Cxx"}

InitLoad ==
    /\ typedefs = [p \in {} |-> NoTypedef]
    /\ out = EmptyMap
    /\ warnings = <<>>
    /\ trace = <<>>
    /\ monomorphs = <<>>
    /\ aborted = ""
    /\ calls = 0
    /\ last = NoCall
    /\ loaded = NotLoaded
    /\ written = <<>>
    /\ deps = <<>>

\* The parser loads one item; a loaded alias enters the Library.
Load(item, mod_cfg) ==
    /\ aborted = ""
    /\ last.op = "none"
    /\ loaded' = load(item, mod_cfg)
    /\ typedefs' = IF loaded'.ok
                   THEN [p \in {loaded'.value.path} |-> loaded'.value]
                   ELSE typedefs
    /\ last' = [op |-> "load", item |-> item, mod_cfg |-> mod_cfg]
    /\ UNCHANGED <<out, warnings, trace, monomorphs, aborted, calls, written, deps>>

Written(self, language) ==
    /\ aborted = ""
    /\ calls < MaxCalls
    /\ written' = written \o write(self, Config(language))
    /\ calls' = calls + 1
    /\ last' = [op |-> "write", item |-> self, language |-> language,
                start |-> Len(written)]
    /\ UNCHANGED <<typedefs, out, warnings, trace, monomorphs, aborted, loaded, deps>>

\* Emission writes the Library's aliases and the registry's monomorphs.
Write(language) ==
    \/ \E g \in DOMAIN typedefs : Written(typedefs[g], language)
    \/ \E i \in 1..Len(monomorphs) : Written(monomorphs[i].item, language)

NextLoad ==
    \/ \E item \in Items, mod_cfg \in ModCfgs : Load(item, mod_cfg)
    \/ \E g \in DOMAIN typedefs, generic_values \in ArgLists :
         InstantiateMonomorph(g, generic_values)
    \/ \E language \in Languages : Write(language)
    \/ \E g \in DOMAIN typedefs :
         \/ TransferAnnotations(g)
         \/ SimplifyStandardTypes(g)
         \/ AnnotationsMut(g)
         \/ RenameForConfig(g)
         \/ ResolveDeclarationTypes(g)
         \/ ManglePaths(g)

SpecLoad == InitLoad /\ [][NextLoad]_vars

\* The part of the declaration that an event of the writer belongs to.
Label(e) ==
    CASE e.call = "write_before" -> "open_guard"
      [] e.call = "documentation" -> "documentation"
      [] e.call = "generic_params" -> "preamble"
      [] e.call = "write_after" -> "close_guard"
      [] e.call = "write" /\ e.text = <<";">> -> "terminator"
      [] OTHER -> "body"

Position(w, label) == CHOOSE i \in 1..Len(w) : Label(w[i]) = label

OnceEach(w) ==
    \A label \in {"open_guard", "documentation", "preamble", "terminator",
                  "close_guard"} :
        Cardinality({i \in 1..Len(w) : Label(w[i]) = label}) = 1

BodyBetween(w, lo, hi) ==
    /\ \E i \in 1..Len(w) : Label(w[i]) = "body"
    /\ \A i \in 1..Len(w) : Label(w[i]) = "body" => lo < i /\ i < hi

GuardsMatch(w, self) ==
    /\ w[Position(w, "open_guard")].cond = w[Position(w, "close_guard")].cond
    /\ (self.cfg = NoCfg) = (w[Position(w, "open_guard")].text = <<>>)
    /\ (self.cfg = NoCfg) = (w[Position(w, "close_guard")].text = <<>>)
    /\ (self.generic_params = <<>> => w[Position(w, "preamble")].text = <<>>)

\* What the last call of write appended to the SourceWriter.
LastWritten == SubSeq(written, last.start + 1, Len(written))

\* C5 as stated: each part is written once, in the order documentation,
\* opening guard, generic preamble, statement body, ';', closing guard.
C5_DocumentationBeforeGuard ==
    last.op = "write" =>
      /\ OnceEach(LastWritten)
      /\ Position(LastWritten, "documentation") < Position(LastWritten, "open_guard")
      /\ Position(LastWritten, "open_guard") < Position(LastWritten, "preamble")
      /\ BodyBetween(LastWritten, Position(LastWritten, "preamble"),
                     Position(LastWritten, "terminator"))
      /\ Position(LastWritten, "terminator") < Position(LastWritten, "close_guard")
      /\ GuardsMatch(LastWritten, last.item)

\* C5 amended: each part is written once, in the order opening guard,
\* documentation, generic preamble (empty for a concrete alias), statement
\* body, one ';', closing guard; both guards come from the one condition
\* computed from the alias's cfg, and are empty when it has none.
C5_GuardBeforeDocumentation ==
    last.op = "write" =>
      /\ OnceEach(LastWritten)
      /\ Position(LastWritten, "open_guard") = 1
      /\ Position(LastWritten, "documentation") = 2
      /\ Position(LastWritten, "preamble") = 3
      /\ BodyBetween(LastWritten, 3, Position(LastWritten, "terminator"))
      /\ Position(LastWritten, "close_guard") = Position(LastWritten, "terminator") + 1
      /\ Position(LastWritten, "close_guard") = Len(LastWritten)
      /\ GuardsMatch(LastWritten, last.item)

\* A documented, guarded monomorph was written.
C5_Witness ==
    /\ last.op = "write"
    /\ last.item.cfg # NoCfg
    /\ last.item.documentation # ""
    /\ \E i \in 1..Len(monomorphs) : monomorphs[i].item = last.item
    /\ Len(LastWritten) > 0
    /\ LastWritten[1].text = <<"#if">>

\* C6: the cfg that load stores is the conjunction of the module's and the
\* alias's own predicate when both are present, the one present otherwise,
\* none when neither is; every monomorph carries its generic's cfg; an alias
\* without cfg is written with empty guards.
C6_ConditionalComposition ==
    /\ (last.op = "load" /\ loaded.ok =>
          LET mod_cfg == last.mod_cfg
              own == last.item.attrs.cfg
              cfg == loaded.value.cfg
          IN  /\ (mod_cfg # NoCfg /\ own # NoCfg =>
                    cfg.kind = "All" /\ cfg.args = <<mod_cfg, own>>)
              /\ (mod_cfg # NoCfg /\ own = NoCfg => cfg = mod_cfg)
              /\ (mod_cfg = NoCfg /\ own # NoCfg => cfg = own)
              /\ (mod_cfg = NoCfg /\ own = NoCfg => cfg = NoCfg))
    /\ (loaded.ok => \A p \in DOMAIN typedefs : typedefs[p].cfg = loaded.value.cfg)
    /\ \A i \in 1..Len(monomorphs) :
          monomorphs[i].item.cfg = typedefs[monomorphs[i].key[1]].cfg
    /\ (last.op = "write" /\ last.item.cfg = NoCfg =>
          \A i \in 1..Len(LastWritten) :
              LastWritten[i].call \in {"write_before", "write_after"} =>
                LastWritten[i].text = <<>> /\ LastWritten[i].cond = NoCondition)

\* An alias under a module predicate with its own predicate was loaded,
\* instantiated, and the monomorph written under the conjunction.
C6_Witness ==
    /\ loaded.ok
    /\ loaded.value.cfg.kind = "All"
    /\ last.op = "write"
    /\ \E i \in 1..Len(monomorphs) :
         monomorphs[i].item = last.item /\ last.item.cfg = loaded.value.cfg
    /\ LastWritten[1].cond.kind = "And"

LoadedAs(item) ==
    /\ loaded.value.aliased = Type_load(item.ty).ty
    /\ loaded.value.path = <<item.ident>>
    /\ loaded.value.export_name = <<item.ident>>
    /\ loaded.value.generic_params = [i \in 1..Len(item.generics) |-> <<item.generics[i]>>]

\* C7 as stated: load fails on a zero-size aliased type and succeeds on every
\* other well-formed aliased type, keeping type, name and generics.
C7_LoadAcceptsEveryOtherType ==
    last.op = "load" =>
      /\ aborted = ""
      /\ (Type_load(last.item.ty).tag = "None" =>
            ~loaded.ok /\ loaded.value = NoTypedef)
      /\ (Type_load(last.item.ty).tag = "Some" => loaded.ok /\ LoadedAs(last.item))

\* C7 amended: load returns an error on a zero-size aliased type; on every
\* other well-formed aliased type it succeeds, keeping type, name and
\* generics, provided the item's annotations parse, and returns the
\* annotation error otherwise; no failure is an abort.
C7_LoadRejectsZeroSize ==
    last.op = "load" =>
      /\ aborted = ""
      /\ (Type_load(last.item.ty).tag = "None" =>
            /\ ~loaded.ok
            /\ loaded.err = "Cannot have a typedef of a zero sized type."
            /\ loaded.value = NoTypedef
            /\ DOMAIN typedefs = {})
      /\ (Type_load(last.item.ty).tag = "Some" /\ last.item.attrs.annotations.ok =>
            /\ loaded.ok
            /\ LoadedAs(last.item)
            /\ loaded.value.annotations = last.item.attrs.annotations.set)
      /\ (Type_load(last.item.ty).tag = "Some" /\ ~last.item.attrs.annotations.ok =>
            /\ ~loaded.ok
            /\ loaded.err = last.item.attrs.annotations.err
            /\ DOMAIN typedefs = {})

\* An alias of a zero-size type was rejected with the returned error.
C7_Witness ==
    /\ last.op = "load"
    /\ Type_load(last.item.ty).tag = "None"
    /\ ~loaded.ok
    /\ loaded.err = "Cannot have a typedef of a zero sized type."
    /\ aborted = ""

(***************************************************************************)
(* Dependency contribution and the closure over the export roots           *)
(***************************************************************************)
NoDependencies == [items |-> {}, order |-> <<>>]

Range(s) == {s[i] : i \in 1..Len(s)}

RECURSIVE add_dependencies(_, _, _)
RECURSIVE Type_add_dependencies_ignoring_generics(_, _, _, _)
RECURSIVE AddEach(_, _, _, _)

\* Type::add_dependencies_ignoring_generics on each type of a list, in order.
AddEach(ts, generic_params, library, d) ==
    IF ts = <<>>
    THEN d
    ELSE AddEach(Tail(ts), generic_params, library,
                 Type_add_dependencies_ignoring_generics(Head(ts), generic_params,
                                                         library, d))

\* Type::add_dependencies_ignoring_generics: a mentioned Path that is not one
\* of the generic parameters and that the Library declares is visited once,
\* its own dependencies first.
Type_add_dependencies_ignoring_generics(t, generic_params, library, d) ==
    CASE t.kind \in {"Ptr", "Array"} ->
           Type_add_dependencies_ignoring_generics(t.args[1], generic_params,
                                                   library, d)
      [] t.kind = "Path" ->
           LET d1 == AddEach(t.args, generic_params, library, d) IN
           IF t.name \in Range(generic_params)
           THEN d1
           ELSE IF t.name \in DOMAIN library /\ t.name \notin d1.items
           THEN LET d2 == add_dependencies(library[t.name], library,
                                           [d1 EXCEPT !.items = @ \cup {t.name}])
                IN  [d2 EXCEPT !.order = Append(@, t.name)]
           ELSE d1
      [] OTHER -> d

\* add_dependencies that does not pass the alias's generic parameters.
add_dependencies_counting_generics(self, library, d) ==
    Type_add_dependencies_ignoring_generics(self.aliased, <<>>, library, d)

\* <Typedef as Item>::add_dependencies
add_dependencies(self, library, d) ==
    Type_add_dependencies_ignoring_generics(self.aliased, self.generic_params,
                                            library, d)

\* The closure over the export roots: each declared root is visited like a
\* mentioned Path.
RECURSIVE closure(_, _, _)
closure(roots, library, d) ==
    IF roots = <<>>
    THEN d
    ELSE LET r == Head(roots) IN
         IF r \in DOMAIN library /\ r \notin d.items
         THEN LET d2 == add_dependencies(library[r], library,
                                         [d EXCEPT !.items = @ \cup {r}])
              IN  closure(Tail(roots), library, [d2 EXCEPT !.order = Append(@, r)])
         ELSE closure(Tail(roots), library, d)

Foo == Path_new("Foo")

Bar == Path_new("Bar")

Baz == Path_new("Baz")

FooTypes ==
    {PathT("Bar", <<TypeT>>), Ptr(TypeT),
     PathT("Option", <<PathT("Ext", <<TypeT, PathT("Baz", <<>>)>>)>>)}

BarTypes == {PathT("Baz", <<>>), Ptr(PathT("Foo", <<Primitive("i32")>>))}

BazTypes == {ArrayT(PathT("Bar", <<>>))}

\* The Library: Foo, Bar and Baz, and in some runs a declaration that has
\* the name of Foo's generic parameter.
DepLibrary(names, fp, ft, bt, zt) ==
    [n \in names |->
       CASE n = Foo -> new(n, fp, ft, NoCfg, {}, "")
         [] n = Bar -> new(n, <<>>, bt, NoCfg, {}, "")
         [] n = Baz -> new(n, <<>>, zt, NoCfg, {}, "")
         [] OTHER -> new(n, <<>>, Primitive("u8"), NoCfg, {}, "")]

InitDeps ==
    /\ typedefs \in {DepLibrary(names, fp, ft, bt, zt) :
                       names \in {{Foo, Bar, Baz}, {Foo, Bar, Baz, T}},
                       fp \in {<<T>>, <<>>},
                       ft \in FooTypes, bt \in BarTypes, zt \in BazTypes}
    /\ out = EmptyMap
    /\ warnings = <<>>
    /\ trace = <<>>
    /\ monomorphs = <<>>
    /\ aborted = ""
    /\ calls = 0
    /\ last = NoCall
    /\ loaded = NotLoaded
    /\ written = <<>>
    /\ deps = NoDependencies

AddDependencies(n) ==
    /\ calls < MaxCalls
    /\ deps' = add_dependencies(typedefs[n], typedefs, deps)
    /\ calls' = calls + 1
    /\ last' = [op |-> "add_dependencies", alias |-> n]
    /\ UNCHANGED <<typedefs, out, warnings, trace, monomorphs, aborted, loaded, written>>

Closure(root) ==
    /\ calls < MaxCalls
    /\ deps' = closure(<<root>>, typedefs, NoDependencies)
    /\ calls' = calls + 1
    /\ last' = [op |-> "closure", alias |-> root]
    /\ UNCHANGED <<typedefs, out, warnings, trace, monomorphs, aborted, loaded, written>>

NextDeps ==
    \/ \E n \in DOMAIN typedefs : AddDependencies(n)
    \/ \E root \in DOMAIN typedefs : Closure(root)
    \/ \E n \in DOMAIN typedefs :
         \/ SimplifyStandardTypes(n)
         \/ AnnotationsMut(n)
         \/ RenameForConfig(n)
         \/ ResolveDeclarationTypes(n)
         \/ ManglePaths(n)

SpecDeps == InitDeps /\ [][NextDeps]_vars

\* Every Path a type mentions.
RECURSIVE Mentions(_)
Mentions(t) ==
    (IF t.kind = "Path" THEN {t.name} ELSE {})
      \cup UNION {Mentions(t.args[i]) : i \in 1..Len(t.args)}

\* The declarations that alias n refers to, its own parameters left out.
References(n) ==
    (Mentions(typedefs[n].aliased) \ Range(typedefs[n].generic_params))
      \cap DOMAIN typedefs

RECURSIVE Reachable(_)
Reachable(S) ==
    LET next == S \cup UNION {References(n) : n \in S} IN
    IF next = S THEN S ELSE Reachable(next)

\* C8: add_dependencies of an alias adds the declarations its aliased type
\* mentions other than its own generic parameters (and what they reach),
\* and never one of its own parameters; the closure over {Foo}, where Foo
\* refers to Bar and Bar to Baz, holds Foo, Bar and Baz and no parameter of
\* Foo.
C8_DependencyContribution ==
    /\ [][\A n \in DOMAIN typedefs :
            calls' = calls + 1 /\ last'.op = "add_dependencies" /\ last'.alias = n =>
              /\ deps.items \subseteq deps'.items
              /\ References(n) \subseteq deps'.items
              /\ (deps'.items \ deps.items) \subseteq Reachable(References(n))
              /\ (deps'.items \ deps.items) \cap Range(typedefs[n].generic_params) = {}]_vars
    /\ [](last.op = "closure" =>
            /\ deps.items = Reachable({last.alias})
            /\ Range(deps.order) = deps.items
            /\ Len(deps.order) = Cardinality(deps.items)
            /\ (/\ last.alias = Foo
                /\ Bar \in References(Foo)
                /\ Baz \in References(Bar)
                => /\ {Foo, Bar, Baz} \subseteq deps.items
                   /\ deps.items \cap Range(typedefs[Foo].generic_params) = {}))

\* The closure over {Foo} was built where Foo<T> mentions Bar and its own
\* parameter T, Bar mentions Baz, and the Library declares a T.
C8_Witness ==
    /\ last.op = "closure"
    /\ last.alias = Foo
    /\ typedefs[Foo].generic_params = <<T>>
    /\ T \in Mentions(typedefs[Foo].aliased)
    /\ T \in DOMAIN typedefs
    /\ Bar \in References(Foo)
    /\ Baz \in References(Bar)
    /\ deps.items = {Foo, Bar, Baz}

====
